---- MODULE Spec2Model ----
(***************************************************************************)
(* ImmuneBuilder/ABodyBuilder2.py as a state machine.                      *)
(*                                                                         *)
(* Two objects are modelled.  Antibody (the ensemble result): its fields   *)
(* are computed in __init__, and its output operations save and save_all   *)
(* run statement by statement (specification Spec).  ABodyBuilder2 (the    *)
(* predictor): __init__ loads one model per requested id and predict calls *)
(* the numbering, encoding and model collaborators (SpecBuilder).  The    *)
(* command line entry point is the third machine (SpecCLI): it reads its  *)
(* arguments and calls the predictor and one output operation.            *)
(*                                                                         *)
(* Python lists are sequences; a Python index k is position k+1.  The raw  *)
(* prediction of a member is a token naming the model that produced it;    *)
(* the aligned coordinates are one-dimensional integers.  The cross-member *)
(* mean is carried exactly by scaling: a deviation is M*x - Sum(x) (M      *)
(* times the code's value), so a squared error is M*M times the code's     *)
(* value, and a sum over residues or members stands for the mean over      *)
(* them.  The scaling is by positive factors, the same for every member,   *)
(* so every comparison between members is the code's comparison.           *)
(***************************************************************************)
EXTENDS Integers, Sequences, FiniteSets, TLC

\* Bounds of the model.
MaxM == 3          \* largest ensemble
ChainLen == 1      \* residues per chain
MaxSpacing == 3    \* a member's residue spacing ranges over 0..MaxSpacing
MaxIds == 2        \* longest list of model ids given to ABodyBuilder2

\* A trace has one point per residue of the heavy and the light chain.
NumRes == 2 * ChainLen

VARIABLES
    \* Antibody fields (set in Antibody.__init__)
    numbered_sequences, atoms, encodings, Rt, aligned_traces, error_estimates, ranking,
    \* the output operation in progress
    op, pc, i, success, dirname, filename,
    \* the file system, and what the current call has done so far (history)
    files, log

    \* ABodyBuilder2: the constructor's loop, the model set, and predict
VARIABLES model_ids, models, bpc, pos, fault, printed,
          sequence_dict, encoding, full_seq, outputs, calls

    \* command_line_interface: its position, the parsed arguments, the
    \* sequences it read, and the calls it has made so far (history)
VARIABLES cpc, args, seqs, clog

avars == <<numbered_sequences, atoms, encodings, Rt, aligned_traces, error_estimates, ranking>>
cvars == <<op, pc, i, success, dirname, filename, files, log>>
bvars == <<model_ids, models, bpc, pos, fault, printed,
           sequence_dict, encoding, full_seq, outputs, calls>>
vars == <<numbered_sequences, atoms, encodings, Rt, aligned_traces, error_estimates, ranking,
          op, pc, i, success, dirname, filename, files, log,
          model_ids, models, bpc, pos, fault, printed,
          sequence_dict, encoding, full_seq, outputs, calls,
          cpc, args, seqs, clog>>
clivars == <<cpc, args, seqs, clog>>

None == "None"
Unbound == "unbound"

header == "REMARK  ANTIBODY STRUCTURE MODELLED USING ABODYBUILDER2"

----------------------------------------------------------------------------
\* Helpers for Python lists.

Range(s) == {s[k] : k \in 1..Len(s)}

RECURSIVE SumSeq(_)
SumSeq(s) == IF Len(s) = 0 THEN 0 ELSE Head(s) + SumSeq(Tail(s))

\* list.index(x): the first position holding x (0-based); -1 stands for the
\* ValueError of a missing element.
ListIndex(l, x) ==
    IF \E k \in 1..Len(l) : l[k] = x
    THEN (CHOOSE k \in 1..Len(l) : l[k] = x /\ \A j \in 1..(k-1) : l[j] # x) - 1
    ELSE -1

----------------------------------------------------------------------------
\* Antibody.__init__

\* The aligned backbone traces the model is run on: member m is a straight
\* chain whose residue r sits at r * d, with a spacing d of its own.
Chain(d) == [r \in 1..NumRes |-> r * d]
Traces == {Chain(d) : d \in 0..MaxSpacing}

\* aligned_traces.mean(0), times the number of members.
MeanOverMembers(at) == [r \in 1..NumRes |-> SumSeq([m \in 1..Len(at) |-> at[m][r]])]

\* (aligned_traces - aligned_traces.mean(0)).square().sum(-1): members x residues.
ErrorEstimates(at) ==
    [m \in 1..Len(at) |->
        [r \in 1..NumRes |->
            (Len(at) * at[m][r] - MeanOverMembers(at)[r])
          * (Len(at) * at[m][r] - MeanOverMembers(at)[r])]]

\* error_estimates.mean(-1): one value per member (times NumRes).
MeanPerMember(ee) == [m \in 1..Len(ee) |-> SumSeq(ee[m])]

\* error_estimates.mean(0): one value per residue (times the number of members).
MeanPerResidue(ee) == [r \in 1..NumRes |-> SumSeq([m \in 1..Len(ee) |-> ee[m][r]])]

Perms(n) == {p \in [1..n -> 0..(n-1)] : \A a, b \in 1..n : a # b => p[a] # p[b]}

\* argsort sorting the wrong way round.
ArgSort_Descending(key) ==
    {p \in Perms(Len(key)) :
        \A r, s \in 1..Len(key) : r < s => key[p[r] + 1] >= key[p[s] + 1]}

\* tensor.argsort() (ascending, stable=False): any index order that sorts the
\* keys; the order of equal keys is not specified by the library.
ArgSort(key) ==
    {p \in Perms(Len(key)) :
        \A r, s \in 1..Len(key) : r < s => key[p[r] + 1] <= key[p[s] + 1]}


\* find_alignment_transform(traces): one rotation and one translation per
\* member, kept as tokens; what they do to the traces is aligned_traces.
find_alignment_transform(M) == [m \in 1..M |-> <<<<"R", m - 1>>, <<"t", m - 1>>>>]

\* Lines 28-38: the objects __init__ can build.  predictions[m] is the pair
\* <<atoms, encoding>> of member m; at is the aligned trace of every member,
\* (traces - t) @ R, as the alignment collaborator determines it; the ranking
\* is an order argsort can return.
Antibody(numbered, predictions, at) ==
    {[numbered_sequences |-> numbered,
      atoms |-> [m \in 1..Len(predictions) |-> predictions[m][1]],
      encodings |-> [m \in 1..Len(predictions) |-> predictions[m][2]],
      Rt |-> find_alignment_transform(Len(predictions)),
      aligned_traces |-> at,
      error_estimates |-> ErrorEstimates(at),
      ranking |-> rk] : rk \in ArgSort(MeanPerMember(ErrorEstimates(at)))}

----------------------------------------------------------------------------
\* Files and collaborators.

Join(d, f) == <<d, f>>

\* f"rank{r}_unrefined.pdb"
RankNames == <<"rank0_unrefined.pdb", "rank1_unrefined.pdb", "rank2_unrefined.pdb",
               "rank3_unrefined.pdb", "rank4_unrefined.pdb", "rank5_unrefined.pdb">>
RankName(r) == IF r \in 0..(Len(RankNames) - 1) THEN RankNames[r + 1] ELSE "rank?_unrefined.pdb"

Exists(fs, path) == path \in DOMAIN fs

Put(fs, path, content) == [p \in (DOMAIN fs) \cup {path} |-> IF p = path THEN content ELSE fs[p]]

Event(e, path, inp, member, ok, arr, txt) ==
    [ev |-> e, path |-> path, inp |-> inp, member |-> member, ok |-> ok, arr |-> arr, txt |-> txt]

NoPath == <<"", "">>

\* Lines 41-46: the aligned structure of member index, serialised and written.
save_single_unrefined(fs, path, index) ==
    Put(fs, path, [kind |-> "unrefined", member |-> index,
                   coords |-> aligned_traces[index + 1], bfactors |-> <<>>])

WriteEvent(path, index) == Event("write", path, NoPath, index, TRUE, <<>>, "")

\* refine(input, output) -> success.  The collaborator reads the input file
\* and leaves at the output path a structure of the same member: refined
\* when it reports success, not refined when it reports failure.
refine(fs, inp, out, ok) ==
    Put(fs, out, [kind |-> IF ok THEN "refined" ELSE "not_refined",
                  member |-> fs[inp].member, coords |-> fs[inp].coords,
                  bfactors |-> <<>>])

RefineEvent(fs, inp, out, ok) == Event("refine", out, inp, fs[inp].member, ok, <<>>, fs[inp].kind)

\* add_errors_as_bfactors(path, array, new_txt): rewrites the file in place.
add_errors_as_bfactors(fs, path, arr) == [fs EXCEPT ![path].bfactors = arr]

\* tensor.sqrt(): the root of the rational num / den, carried symbolically.
Sqrt(num, den) == <<"sqrt", num, den>>

\* The annotation array built from the error of the first-ranked member only.
Confidence_OfTopRanked ==
    [r \in 1..NumRes |->
        Sqrt(error_estimates[ranking[1] + 1][r], Len(error_estimates) * Len(error_estimates))]

\* error_estimates.mean(0).sqrt(): per residue, the root of the mean over the
\* members.  The stored estimates are scaled by M*M and MeanPerResidue by M
\* more, hence the denominator.
Confidence ==
    [r \in 1..NumRes |->
        Sqrt(MeanPerResidue(error_estimates)[r],
             Len(error_estimates) * Len(error_estimates) * Len(error_estimates))]


----------------------------------------------------------------------------
\* Antibody.save (lines 67-84), one statement per step.

\* An Antibody on which no output operation has been called yet.
Idle == pc = "idle" /\ Len(atoms) > 0

\* Lines 67-69: the call and the default file name.
SaveBegin(fn) ==
    /\ Idle
    /\ op' = "save" /\ pc' = "save_for"
    /\ i' = 0 /\ success' = Unbound
    /\ dirname' = "."
    /\ filename' = IF fn = None THEN "ABodyBuilder2_output.pdb" ELSE fn
    /\ log' = <<>>
    /\ UNCHANGED files
    /\ UNCHANGED <<avars, bvars, clivars>>

\* The candidate taken from the head of the ranking in every iteration.
Candidate_AlwaysFirst(k) == ListIndex(ranking, 0)

\* The member save takes as its candidate in iteration k of its loop.
Candidate(k) == ListIndex(ranking, k)

\* SaveWrite1 aligning the candidate's stored prediction in place.
SaveWrite1_AlignsInPlace ==
    /\ pc = "save_for" /\ i < Len(atoms)
    /\ files' = save_single_unrefined(files, Join(dirname, filename), Candidate(i))
    /\ log' = Append(log, WriteEvent(Join(dirname, filename), Candidate(i)))
    /\ atoms' = [atoms EXCEPT ![Candidate(i) + 1] = <<"aligned", @[2]>>]
    /\ pc' = "save_refine1"
    /\ UNCHANGED <<op, i, success, dirname, filename>>
    /\ UNCHANGED <<numbered_sequences, encodings, Rt, aligned_traces, error_estimates, ranking>>
    /\ UNCHANGED <<bvars, clivars>>

\* Lines 71-72: the loop head and the first write of the iteration.
SaveWrite1 ==
    /\ pc = "save_for" /\ i < Len(atoms)
    /\ files' = save_single_unrefined(files, Join(dirname, filename), Candidate(i))
    /\ log' = Append(log, WriteEvent(Join(dirname, filename), Candidate(i)))
    /\ pc' = "save_refine1"
    /\ UNCHANGED <<op, i, success, dirname, filename>>
    /\ UNCHANGED <<avars, bvars, clivars>>

\* Line 71: the loop has run through every member.
SaveForEnd ==
    /\ pc = "save_for" /\ i >= Len(atoms)
    /\ pc' = "save_after"
    /\ UNCHANGED <<op, i, success, dirname, filename, files, log>>
    /\ UNCHANGED <<avars, bvars, clivars>>

\* SaveRefine1 without the break: the retry follows whatever the outcome.
SaveRefine1_NoBreak ==
    /\ pc = "save_refine1"
    /\ \E ok \in BOOLEAN :
        /\ files' = refine(files, Join(dirname, filename), Join(dirname, filename), ok)
        /\ log' = Append(log, RefineEvent(files, Join(dirname, filename), Join(dirname, filename), ok))
        /\ success' = IF ok THEN "True" ELSE "False"
        /\ pc' = "save_write2"
    /\ UNCHANGED <<op, i, dirname, filename>>
    /\ UNCHANGED <<avars, bvars, clivars>>

\* Lines 73-75: the first attempt; success leaves the loop.
SaveRefine1 ==
    /\ pc = "save_refine1"
    /\ \E ok \in BOOLEAN :
        /\ files' = refine(files, Join(dirname, filename), Join(dirname, filename), ok)
        /\ log' = Append(log, RefineEvent(files, Join(dirname, filename), Join(dirname, filename), ok))
        /\ success' = IF ok THEN "True" ELSE "False"
        /\ pc' = IF ok THEN "save_after" ELSE "save_write2"
    /\ UNCHANGED <<op, i, dirname, filename>>
    /\ UNCHANGED <<avars, bvars, clivars>>

\* SaveWrite2 left out: the retry runs on what the failed attempt left.
SaveWrite2_NoRewrite ==
    /\ pc = "save_write2"
    /\ pc' = "save_refine2"
    /\ UNCHANGED <<op, i, success, dirname, filename, files, log>>
    /\ UNCHANGED <<avars, bvars, clivars>>

\* Line 77: the candidate is written again.
SaveWrite2 ==
    /\ pc = "save_write2"
    /\ files' = save_single_unrefined(files, Join(dirname, filename), Candidate(i))
    /\ log' = Append(log, WriteEvent(Join(dirname, filename), Candidate(i)))
    /\ pc' = "save_refine2"
    /\ UNCHANGED <<op, i, success, dirname, filename>>
    /\ UNCHANGED <<avars, bvars, clivars>>

\* SaveRefine2 as a fixed two-attempt policy would have it: the loop is left
\* after the second attempt whatever its outcome.
SaveRefine2_StopsAfterRetry ==
    /\ pc = "save_refine2"
    /\ \E ok \in BOOLEAN :
        /\ files' = refine(files, Join(dirname, filename), Join(dirname, filename), ok)
        /\ log' = Append(log, RefineEvent(files, Join(dirname, filename), Join(dirname, filename), ok))
        /\ success' = IF ok THEN "True" ELSE "False"
        /\ pc' = "save_after"
        /\ i' = i
    /\ UNCHANGED <<op, dirname, filename>>
    /\ UNCHANGED <<avars, bvars, clivars>>

\* Lines 78-80: the second attempt; failure goes on to the next iteration.
SaveRefine2 ==
    /\ pc = "save_refine2"
    /\ \E ok \in BOOLEAN :
        /\ files' = refine(files, Join(dirname, filename), Join(dirname, filename), ok)
        /\ log' = Append(log, RefineEvent(files, Join(dirname, filename), Join(dirname, filename), ok))
        /\ success' = IF ok THEN "True" ELSE "False"
        /\ pc' = IF ok THEN "save_after" ELSE "save_for"
        /\ i' = IF ok THEN i ELSE i + 1
    /\ UNCHANGED <<op, dirname, filename>>
    /\ UNCHANGED <<avars, bvars, clivars>>

\* Lines 82-84: the warning when the last attempt failed, then the annotation.
SaveFinish ==
    /\ pc = "save_after" /\ success # Unbound
    /\ files' = add_errors_as_bfactors(files, Join(dirname, filename), Confidence)
    /\ log' = (IF success = "False"
               THEN Append(log, Event("print", Join(dirname, filename), NoPath, -1, FALSE, <<>>, "FAILED TO REFINE"))
               ELSE log)
              \o <<Event("add_errors_as_bfactors", Join(dirname, filename), NoPath, -1, TRUE, Confidence, header)>>
    /\ pc' = "done"
    /\ UNCHANGED <<op, i, success, dirname, filename>>
    /\ UNCHANGED <<avars, bvars, clivars>>

----------------------------------------------------------------------------
\* Antibody.save_single_unrefined (lines 41-46) called on its own; index
\* defaults to 0.
SaveSingleUnrefined(fn, index) ==
    /\ Idle /\ index \in 0..(Len(atoms) - 1)
    /\ op' = "save_single_unrefined" /\ pc' = "done"
    /\ dirname' = "." /\ filename' = fn
    /\ files' = save_single_unrefined(files, Join(".", fn), index)
    /\ log' = <<WriteEvent(Join(".", fn), index)>>
    /\ UNCHANGED <<i, success>>
    /\ UNCHANGED <<avars, bvars, clivars>>

----------------------------------------------------------------------------
\* Antibody.save_all (lines 49-64).

\* Lines 49-54: the call, the defaults and the directory.
SaveAllBegin(dn, fn) ==
    /\ Idle
    /\ op' = "save_all" /\ pc' = "all_for"
    /\ i' = 0 /\ success' = Unbound
    /\ dirname' = IF dn = None THEN "ABodyBuilder2_output" ELSE dn
    /\ filename' = IF fn = None THEN "final_model.pdb" ELSE fn
    /\ log' = <<Event("makedirs", Join(IF dn = None THEN "ABodyBuilder2_output" ELSE dn, ""), NoPath, -1, TRUE, <<>>, "")>>
    /\ UNCHANGED files
    /\ UNCHANGED <<avars, bvars, clivars>>

\* SaveAllWrite with the file labelled by the member's index, not its rank.
SaveAllWrite_LabelByIndex ==
    /\ pc = "all_for" /\ i < Len(atoms)
    /\ files' = save_single_unrefined(files, Join(dirname, RankName(i)), i)
    /\ log' = Append(log, WriteEvent(Join(dirname, RankName(i)), i))
    /\ i' = i + 1
    /\ UNCHANGED <<op, pc, success, dirname, filename>>
    /\ UNCHANGED <<avars, bvars, clivars>>

\* Lines 56-59: member i goes to the file labelled with its rank.
SaveAllWrite ==
    /\ pc = "all_for" /\ i < Len(atoms)
    /\ files' = save_single_unrefined(files, Join(dirname, RankName(ListIndex(ranking, i))), i)
    /\ log' = Append(log, WriteEvent(Join(dirname, RankName(ListIndex(ranking, i))), i))
    /\ i' = i + 1
    /\ UNCHANGED <<op, pc, success, dirname, filename>>
    /\ UNCHANGED <<avars, bvars, clivars>>

\* Line 61: the per-residue mean error array.
SaveAllErrors ==
    /\ pc = "all_for" /\ i >= Len(atoms)
    /\ files' = Put(files, Join(dirname, "error_estimates.npy"),
                    [kind |-> "npy", member |-> -1, coords |-> MeanPerResidue(error_estimates), bfactors |-> <<>>])
    /\ log' = Append(log, Event("np.save", Join(dirname, "error_estimates.npy"), NoPath, -1, TRUE, MeanPerResidue(error_estimates), ""))
    /\ pc' = "all_refine"
    /\ UNCHANGED <<op, i, success, dirname, filename>>
    /\ UNCHANGED <<avars, bvars, clivars>>

\* SaveAllRefine taking the file of the last member written as its input.
SaveAllRefine_LastWritten ==
    /\ pc = "all_refine"
    /\ \E ok \in BOOLEAN :
        /\ files' = refine(files, Join(dirname, RankName(ListIndex(ranking, Len(atoms) - 1))), Join(dirname, filename), ok)
        /\ log' = Append(log, RefineEvent(files, Join(dirname, RankName(ListIndex(ranking, Len(atoms) - 1))), Join(dirname, filename), ok))
    /\ pc' = "all_annotate"
    /\ UNCHANGED <<op, i, success, dirname, filename>>
    /\ UNCHANGED <<avars, bvars, clivars>>

\* Lines 62-63: one refinement, rank 0 into the final file; its result is dropped.
SaveAllRefine ==
    /\ pc = "all_refine"
    /\ \E ok \in BOOLEAN :
        /\ files' = refine(files, Join(dirname, "rank0_unrefined.pdb"), Join(dirname, filename), ok)
        /\ log' = Append(log, RefineEvent(files, Join(dirname, "rank0_unrefined.pdb"), Join(dirname, filename), ok))
    /\ pc' = "all_annotate"
    /\ UNCHANGED <<op, i, success, dirname, filename>>
    /\ UNCHANGED <<avars, bvars, clivars>>

\* Line 64: the annotation of the final file.
SaveAllFinish ==
    /\ pc = "all_annotate"
    /\ files' = add_errors_as_bfactors(files, Join(dirname, filename), Confidence)
    /\ log' = Append(log, Event("add_errors_as_bfactors", Join(dirname, filename), NoPath, -1, TRUE, Confidence, header))
    /\ pc' = "done"
    /\ UNCHANGED <<op, i, success, dirname, filename>>
    /\ UNCHANGED <<avars, bvars, clivars>>

----------------------------------------------------------------------------
\* ABodyBuilder2.__init__ (lines 88-110).

\* Lines 11-16: the models the embed_dim table knows.
embed_dim ==
    ("antibody_model_1" :> 128) @@ ("antibody_model_2" :> 256) @@
    ("antibody_model_3" :> 256) @@ ("antibody_model_4" :> 256)

\* Line 94: f"antibody_model_{id}"
ModelFiles == <<"antibody_model_1", "antibody_model_2", "antibody_model_3",
                "antibody_model_4", "antibody_model_5", "antibody_model_6">>
ModelFile(id) == IF id \in 1..Len(ModelFiles) THEN ModelFiles[id] ELSE "antibody_model_?"

NoFault == [kind |-> "none", who |-> ""]

\* A dict assignment d[key] = value: a new key goes last, a known key keeps
\* its place.  The dict is the sequence of its <<key, value>> items.
DictKeys(d) == [n \in 1..Len(d) |-> d[n][1]]
DictSet(d, key, value) ==
    IF \E n \in 1..Len(d) : d[n][1] = key
    THEN [n \in 1..Len(d) |-> IF d[n][1] = key THEN <<key, value>> ELSE d[n]]
    ELSE Append(d, <<key, value>>)

\* Line 88-92: the call.
BuilderBegin(ids) ==
    /\ bpc = "none"
    /\ model_ids' = ids /\ models' = <<>> /\ pos' = 0
    /\ bpc' = "init_for"
    /\ UNCHANGED <<fault, printed, sequence_dict, encoding, full_seq, outputs, calls>>
    /\ UNCHANGED <<avars, cvars, clivars>>

\* BuilderMember reporting a member that fails and going on to the next one.
BuilderMember_SkipsFailed ==
    /\ bpc = "init_for" /\ pos < Len(model_ids)
    /\ LET id == ModelFile(model_ids[pos + 1]) IN
       \E loads \in BOOLEAN :
         /\ printed' = IF loads THEN printed ELSE Append(printed, <<"ERROR", id>>)
         /\ models' = IF loads THEN DictSet(models, id, <<"model", id>>) ELSE models
         /\ pos' = pos + 1
         /\ UNCHANGED <<fault, bpc>>
    /\ UNCHANGED <<model_ids, sequence_dict, encoding, full_seq, outputs, calls>>
    /\ UNCHANGED <<avars, cvars, clivars>>

\* Lines 93-110, one iteration.  What the environment answers is the input:
\* whether the weights file exists, whether the download and the load work.
BuilderMember ==
    /\ bpc = "init_for" /\ pos < Len(model_ids)
    /\ LET id == ModelFile(model_ids[pos + 1]) IN
       \E exists \in BOOLEAN, downloads \in BOOLEAN, loads \in BOOLEAN :
         IF id \notin DOMAIN embed_dim
         THEN \* line 95: the table lookup raises before the try block
              /\ fault' = [kind |-> "KeyError", who |-> id] /\ bpc' = "init_raised"
              /\ UNCHANGED <<models, pos, printed>>
         ELSE IF ~exists /\ ~downloads
         THEN \* lines 100-101 raise, lines 104-106 report and re-raise
              /\ printed' = printed \o <<<<"Downloading weights", id>>, <<"ERROR", id>>>>
              /\ fault' = [kind |-> "Exception", who |-> id] /\ bpc' = "init_raised"
              /\ UNCHANGED <<models, pos>>
         ELSE IF ~loads
         THEN \* line 103 raises, lines 104-106 report and re-raise
              /\ printed' = (IF exists THEN printed ELSE Append(printed, <<"Downloading weights", id>>))
                            \o <<<<"ERROR", id>>>>
              /\ fault' = [kind |-> "Exception", who |-> id] /\ bpc' = "init_raised"
              /\ UNCHANGED <<models, pos>>
         ELSE \* lines 108-110
              /\ printed' = (IF exists THEN printed ELSE Append(printed, <<"Downloading weights", id>>))
              /\ models' = DictSet(models, id, <<"model", id>>)
              /\ pos' = pos + 1
              /\ UNCHANGED <<fault, bpc>>
    /\ UNCHANGED <<model_ids, sequence_dict, encoding, full_seq, outputs, calls>>
    /\ UNCHANGED <<avars, cvars, clivars>>

\* Line 93: the loop is over; the constructor returns.
BuilderReady ==
    /\ bpc = "init_for" /\ pos >= Len(model_ids)
    /\ bpc' = "ready"
    /\ UNCHANGED <<model_ids, models, pos, fault, printed, sequence_dict, encoding, full_seq, outputs, calls>>
    /\ UNCHANGED <<avars, cvars, clivars>>

----------------------------------------------------------------------------
\* ABodyBuilder2.predict (lines 113-126).

\* number_sequences(sequence_dict): each chain it is given, as its ordered
\* list of <<label, residue>> pairs.
number_sequences(sd) ==
    [chain \in DOMAIN sd |-> [n \in 1..Len(sd[chain]) |-> <<n, sd[chain][n]>>]]

\* Line 115: "".join(x[1] for x in numbered_sequences[chain]) for every chain.
Joined(numbered) ==
    [chain \in DOMAIN numbered |-> [n \in 1..Len(numbered[chain]) |-> numbered[chain][n][2]]]

\* get_encoding(sequence_dict): a value determined by the sequences.
get_encoding(sd) == <<"encoding", sd>>

\* Lines 113-114: the call; the numbering collaborator is the first statement.
\* It returns the numbered chains or raises.
PredictNumber(sd) ==
    /\ bpc = "ready"
    /\ calls' = <<<<"number_sequences", sd>>>>
    /\ outputs' = <<>> /\ encoding' = <<>> /\ full_seq' = <<>>
    /\ \E numbers \in BOOLEAN :
         IF numbers
         THEN /\ numbered_sequences' = number_sequences(sd)
              /\ sequence_dict' = Joined(number_sequences(sd))
              /\ bpc' = "encode" /\ UNCHANGED fault
         ELSE /\ fault' = [kind |-> "Exception", who |-> "number_sequences"] /\ bpc' = "predict_raised"
              /\ UNCHANGED <<numbered_sequences, sequence_dict>>
    /\ UNCHANGED <<model_ids, models, pos, printed>>
    /\ UNCHANGED <<atoms, encodings, Rt, aligned_traces, error_estimates, ranking>>
    /\ UNCHANGED <<cvars, clivars>>

\* Lines 118-120: the encoding collaborator, then the concatenation, which
\* raises KeyError when a chain is missing.
PredictEncode ==
    /\ bpc = "encode"
    /\ calls' = Append(calls, <<"get_encoding", sequence_dict>>)
    /\ \E encodes \in BOOLEAN :
         IF ~encodes
         THEN /\ fault' = [kind |-> "Exception", who |-> "get_encoding"] /\ bpc' = "predict_raised"
              /\ UNCHANGED <<encoding, full_seq, pos>>
         ELSE IF {"H", "L"} \subseteq DOMAIN sequence_dict
         THEN /\ encoding' = get_encoding(sequence_dict)
              /\ full_seq' = sequence_dict["H"] \o sequence_dict["L"]
              /\ pos' = 0
              /\ bpc' = "predict_for" /\ UNCHANGED fault
         ELSE /\ encoding' = get_encoding(sequence_dict)
              /\ fault' = [kind |-> "KeyError", who |-> IF "H" \in DOMAIN sequence_dict THEN "L" ELSE "H"]
              /\ bpc' = "predict_raised"
              /\ UNCHANGED <<full_seq, pos>>
    /\ UNCHANGED <<model_ids, models, printed, sequence_dict, outputs>>
    /\ UNCHANGED <<avars, cvars, clivars>>

\* What the model loaded from model_file returns: <<atoms, encoding>>.
Prediction(model_file) == <<<<"atoms", model_file>>, <<"encoding", model_file>>>>

\* PredictModel putting the newest output first.
PredictModel_Prepends ==
    /\ bpc = "predict_for" /\ pos < Len(models)
    /\ calls' = Append(calls, <<"model", models[pos + 1][1], encoding, full_seq>>)
    /\ outputs' = <<Prediction(models[pos + 1][1])>> \o outputs
    /\ pos' = pos + 1
    /\ UNCHANGED <<model_ids, models, bpc, fault, printed, sequence_dict, encoding, full_seq>>
    /\ UNCHANGED <<avars, cvars, clivars>>

\* Lines 122-124: the next model of the dict is run and its output appended.
PredictModel ==
    /\ bpc = "predict_for" /\ pos < Len(models)
    /\ calls' = Append(calls, <<"model", models[pos + 1][1], encoding, full_seq>>)
    /\ outputs' = Append(outputs, Prediction(models[pos + 1][1]))
    /\ pos' = pos + 1
    /\ UNCHANGED <<model_ids, models, bpc, fault, printed, sequence_dict, encoding, full_seq>>
    /\ UNCHANGED <<avars, cvars, clivars>>

\* Line 126 with no model loaded: torch.stack of an empty list raises.
PredictNoModel ==
    /\ bpc = "predict_for" /\ pos >= Len(models) /\ Len(outputs) = 0
    /\ fault' = [kind |-> "RuntimeError", who |-> "torch.stack"] /\ bpc' = "predict_raised"
    /\ UNCHANGED <<model_ids, models, pos, printed, sequence_dict, encoding, full_seq, outputs, calls>>
    /\ UNCHANGED <<avars, cvars, clivars>>

\* Line 126: the Antibody is built from the outputs, in their order.
PredictReturn ==
    /\ bpc = "predict_for" /\ pos >= Len(models) /\ Len(outputs) > 0
    /\ \E at \in [1..Len(outputs) -> Traces] :
         \E a \in Antibody(numbered_sequences, outputs, at) :
           /\ atoms' = a.atoms
           /\ encodings' = a.encodings
           /\ Rt' = a.Rt
           /\ aligned_traces' = a.aligned_traces
           /\ error_estimates' = a.error_estimates
           /\ ranking' = a.ranking
    /\ bpc' = "returned"
    /\ UNCHANGED <<numbered_sequences, model_ids, models, pos, fault, printed, sequence_dict, encoding, full_seq, outputs, calls>>
    /\ UNCHANGED <<cvars, clivars>>

----------------------------------------------------------------------------
\* An Antibody built from the predictions of M models, then its output calls.

DefaultNumbering ==
    number_sequences(("H" :> [n \in 1..ChainLen |-> "E"]) @@ ("L" :> [n \in 1..ChainLen |-> "D"]))

NoCall ==
    /\ op = "none" /\ pc = "idle" /\ i = 0 /\ success = Unbound
    /\ dirname = "" /\ filename = ""
    /\ files = <<>> /\ log = <<>>

NoAntibody ==
    /\ numbered_sequences = <<>> /\ atoms = <<>> /\ encodings = <<>> /\ Rt = <<>>
    /\ aligned_traces = <<>> /\ error_estimates = <<>> /\ ranking = <<>>

NoBuilder ==
    /\ model_ids = <<>> /\ models = <<>> /\ bpc = "none" /\ pos = 0
    /\ fault = NoFault /\ printed = <<>>
    /\ sequence_dict = <<>> /\ encoding = <<>> /\ full_seq = <<>>
    /\ outputs = <<>> /\ calls = <<>>

NoArgs ==
    [heavy_sequence |-> None, light_sequence |-> None, fasta_file |-> None,
     output |-> None, to_directory |-> FALSE, verbose |-> FALSE]

NoCLI ==
    /\ cpc = "none" /\ args = NoArgs /\ seqs = <<>> /\ clog = <<>>

FileNames == {None, "model.pdb"}
DirNames == {None, "outdir"}

Init ==
    /\ \E M \in 1..MaxM :
         \E at \in [1..M -> Traces] :
           \E a \in Antibody(DefaultNumbering, [m \in 1..M |-> Prediction(ModelFile(m))], at) :
             /\ numbered_sequences = a.numbered_sequences
             /\ atoms = a.atoms
             /\ encodings = a.encodings
             /\ Rt = a.Rt
             /\ aligned_traces = a.aligned_traces
             /\ error_estimates = a.error_estimates
             /\ ranking = a.ranking
    /\ NoBuilder
    /\ NoCall
    /\ NoCLI

Next ==
    \/ (\E fn \in FileNames : SaveBegin(fn))
    \/ SaveWrite1
    \/ SaveForEnd
    \/ SaveRefine1
    \/ SaveWrite2
    \/ SaveRefine2
    \/ SaveFinish
    \/ (\E dn \in DirNames, fn \in FileNames : SaveAllBegin(dn, fn))
    \/ SaveAllWrite
    \/ SaveAllErrors
    \/ SaveAllRefine
    \/ SaveAllFinish
    \/ \E index \in 0..(MaxM - 1) : SaveSingleUnrefined("model.pdb", index)

Spec == Init /\ [][Next]_vars

\* A call to save that has begun runs on: each statement is executed once
\* it is reached, and refine returns.
SaveSteps ==
    \/ SaveWrite1
    \/ SaveForEnd
    \/ SaveRefine1
    \/ SaveWrite2
    \/ SaveRefine2
    \/ SaveFinish

SpecFair == Init /\ [][Next]_vars /\ WF_vars(SaveSteps)

----------------------------------------------------------------------------
\* One Antibody and any number of output calls on it, one after another; the
\* files of earlier calls stay.

\* Lines 46, 64, 84: the call returns; its locals are gone.
Return ==
    /\ pc = "done"
    /\ op' = "none" /\ pc' = "idle" /\ i' = 0 /\ success' = Unbound
    /\ dirname' = "" /\ filename' = "" /\ log' = <<>>
    /\ UNCHANGED files
    /\ UNCHANGED <<avars, bvars, clivars>>

\* The ensembles of the call sequences: member m has spacing m - 1 (taken
\* round the spacings there are).
Staggered(M) == [m \in 1..M |-> Chain((m - 1) % (MaxSpacing + 1))]

InitCalls ==
    /\ \E M \in 1..MaxM :
         \E a \in Antibody(DefaultNumbering, [m \in 1..M |-> Prediction(ModelFile(m))], Staggered(M)) :
           /\ numbered_sequences = a.numbered_sequences
           /\ atoms = a.atoms
           /\ encodings = a.encodings
           /\ Rt = a.Rt
           /\ aligned_traces = a.aligned_traces
           /\ error_estimates = a.error_estimates
           /\ ranking = a.ranking
    /\ NoBuilder
    /\ NoCall
    /\ NoCLI

NextCalls ==
    \/ (\E fn \in FileNames : SaveBegin(fn))
    \/ SaveWrite1
    \/ SaveForEnd
    \/ SaveRefine1
    \/ SaveWrite2
    \/ SaveRefine2
    \/ SaveFinish
    \/ SaveAllBegin(None, None)
    \/ SaveAllWrite
    \/ SaveAllErrors
    \/ SaveAllRefine
    \/ SaveAllFinish
    \/ (\E index \in 0..(MaxM - 1) : SaveSingleUnrefined("model.pdb", index))
    \/ Return

SpecCalls == InitCalls /\ [][NextCalls]_vars


----------------------------------------------------------------------------
\* A predictor built for a list of model ids, then one call to predict.

\* The ids a caller asks for: the four of the table and one it does not know.
RequestIds == 1..(Cardinality(DOMAIN embed_dim) + 1)
IdLists ==
    UNION {[1..n -> RequestIds] : n \in 0..MaxIds} \cup {<<1, 2, 3, 4>>}

Text(c) == [n \in 1..ChainLen |-> c]
SequenceDicts ==
    UNION {[keys -> {Text("E"), Text("D")}] : keys \in SUBSET {"H", "L"}}

InitBuilder ==
    /\ NoAntibody
    /\ NoCall
    /\ NoBuilder
    /\ NoCLI

NextBuilder ==
    \/ \E ids \in IdLists : BuilderBegin(ids)
    \/ BuilderMember
    \/ BuilderReady
    \/ \E sd \in SequenceDicts : PredictNumber(sd)
    \/ PredictEncode
    \/ PredictModel
    \/ PredictNoModel
    \/ PredictReturn

SpecBuilder == InitBuilder /\ [][NextBuilder]_vars

----------------------------------------------------------------------------
\* command_line_interface (lines 129-174).  The calls it makes on the
\* predictor and on the Antibody are recorded, with their argument and
\* whether they returned, in clog; what those calls do inside is the subject
\* of Spec and SpecBuilder.

Call(e, arg, ok) == [ev |-> e, arg |-> arg, ok |-> ok]

\* sequence_dict_from_fasta(file): the chains the file names.
sequence_dict_from_fasta(file) ==
    {[chain \in keys |-> IF chain = "H" THEN "EVQLV" ELSE "DIQMT"] : keys \in {{"H", "L"}, {"H"}}}

\* Lines 148-155 accepting a single chain in place of the pair.
CLISequences_EitherChain ==
    /\ cpc = "parsed"
    /\ IF (args.heavy_sequence # None) \/ (args.light_sequence # None)
       THEN /\ seqs' = ("H" :> args.heavy_sequence) @@ ("L" :> args.light_sequence)
            /\ cpc' = "loaded" /\ UNCHANGED clog
       ELSE IF args.fasta_file # None
       THEN /\ seqs' \in sequence_dict_from_fasta(args.fasta_file)
            /\ cpc' = "loaded" /\ UNCHANGED clog
       ELSE /\ clog' = Append(clog, Call("raise", "ValueError: Missing input sequences", FALSE))
            /\ cpc' = "raised" /\ UNCHANGED seqs
    /\ UNCHANGED args
    /\ UNCHANGED <<avars, cvars, bvars>>

\* Lines 148-155: the sequences come from the pair of options, else from the
\* fasta file, else the call fails.
CLISequences ==
    /\ cpc = "parsed"
    /\ IF (args.heavy_sequence # None) /\ (args.light_sequence # None)
       THEN /\ seqs' = ("H" :> args.heavy_sequence) @@ ("L" :> args.light_sequence)
            /\ cpc' = "loaded" /\ UNCHANGED clog
       ELSE IF args.fasta_file # None
       THEN /\ seqs' \in sequence_dict_from_fasta(args.fasta_file)
            /\ cpc' = "loaded" /\ UNCHANGED clog
       ELSE /\ clog' = Append(clog, Call("raise", "ValueError: Missing input sequences", FALSE))
            /\ cpc' = "raised" /\ UNCHANGED seqs
    /\ UNCHANGED args
    /\ UNCHANGED <<avars, cvars, bvars>>

\* Lines 157-161: the verbose banner; printing seqs[chain] for both chains
\* fails on a dict without one of them.
CLIAnnounce ==
    /\ cpc = "loaded"
    /\ IF ~args.verbose
       THEN cpc' = "construct" /\ UNCHANGED clog
       ELSE IF {"H", "L"} \subseteq DOMAIN seqs
       THEN /\ clog' = clog \o <<Call("print", "description", TRUE),
                                  Call("print", "Sequences loaded succesfully.", TRUE),
                                  Call("print", <<"H", seqs["H"]>>, TRUE),
                                  Call("print", <<"L", seqs["L"]>>, TRUE),
                                  Call("print", "Running sequences through deep learning model...", TRUE)>>
            /\ cpc' = "construct"
       ELSE /\ clog' = clog \o <<Call("print", "description", TRUE),
                                  Call("print", "Sequences loaded succesfully.", TRUE)>>
                             \o (IF "H" \in DOMAIN seqs THEN <<Call("print", <<"H", seqs["H"]>>, TRUE)>> ELSE <<>>)
                             \o <<Call("raise", "KeyError", FALSE)>>
            /\ cpc' = "raised"
    /\ UNCHANGED <<args, seqs>>
    /\ UNCHANGED <<avars, cvars, bvars>>

\* Line 162, ABodyBuilder2(): the constructor returns the predictor or raises
\* (a missing weights file that cannot be loaded).
CLIConstruct ==
    /\ cpc = "construct"
    /\ \E ok \in BOOLEAN :
         /\ clog' = Append(clog, Call("ABodyBuilder2", <<>>, ok))
         /\ cpc' = IF ok THEN "predict" ELSE "raised"
    /\ UNCHANGED <<args, seqs>>
    /\ UNCHANGED <<avars, cvars, bvars>>

\* Lines 162-164, .predict(seqs): returns the Antibody or raises; it cannot
\* return for a dict that lacks a chain.
CLIPredict ==
    /\ cpc = "predict"
    /\ \E ok \in BOOLEAN :
         /\ ok => {"H", "L"} \subseteq DOMAIN seqs
         /\ clog' = Append(clog, Call("predict", seqs, ok))
                      \o (IF ok /\ args.verbose
                          THEN <<Call("print", "Antibody modelled succesfully, starting refinement.", TRUE)>>
                          ELSE <<>>)
         /\ cpc' = IF ok THEN "output" ELSE "raised"
    /\ UNCHANGED <<args, seqs>>
    /\ UNCHANGED <<avars, cvars, bvars>>

\* Lines 166-169: with --to_directory, save_all(args.output).
CLISaveAll ==
    /\ cpc = "output" /\ args.to_directory
    /\ clog' = Append(clog, Call("save_all", args.output, TRUE))
                 \o (IF args.verbose
                     THEN <<Call("print", "Refinement finished. Saving all outputs to directory", TRUE)>>
                     ELSE <<>>)
    /\ cpc' = "returned"
    /\ UNCHANGED <<args, seqs>>
    /\ UNCHANGED <<avars, cvars, bvars>>

\* Lines 170-174: without it, save(args.output).
CLISave ==
    /\ cpc = "output" /\ ~args.to_directory
    /\ clog' = Append(clog, Call("save", args.output, TRUE))
                 \o (IF args.verbose
                     THEN <<Call("print", <<"Refinement finished. Saving final structure to",
                                           IF args.output = None THEN "ABodyBuilder2_output.pdb" ELSE args.output>>, TRUE)>>
                     ELSE <<>>)
    /\ cpc' = "returned"
    /\ UNCHANGED <<args, seqs>>
    /\ UNCHANGED <<avars, cvars, bvars>>

\* Line 148: what parse_args can return.
ArgSets ==
    [heavy_sequence : {None, "EVQLV"}, light_sequence : {None, "DIQMT"},
     fasta_file : {None, "in.fasta"}, output : {None, "out"},
     to_directory : BOOLEAN, verbose : BOOLEAN]

InitCLI ==
    /\ NoAntibody
    /\ NoCall
    /\ NoBuilder
    /\ cpc = "parsed" /\ args \in ArgSets /\ seqs = <<>> /\ clog = <<>>

NextCLI ==
    \/ CLISequences
    \/ CLIAnnounce
    \/ CLIConstruct
    \/ CLIPredict
    \/ CLISaveAll
    \/ CLISave

SpecCLI == InitCLI /\ [][NextCLI]_vars


----------------------------------------------------------------------------
\* What the call in progress has done, read off its history.

Select(e) == SelectSeq(log, LAMBDA x : x.ev = e)
Writes == Select("write")
Refines == Select("refine")
Target == Join(dirname, filename)
RankPath(r) == Join(dirname, RankName(r))
MeanError(m) == MeanPerMember(error_estimates)[m + 1]
Unrefined(m) == [kind |-> "unrefined", member |-> m, coords |-> aligned_traces[m + 1], bfactors |-> <<>>]

----------------------------------------------------------------------------
TiesInIndexOrder ==
    \A r, s \in 1..Len(ranking) :
        (r < s /\ MeanError(ranking[r]) = MeanError(ranking[s])) => ranking[r] < ranking[s]

\* C2 as stated: the first structure save writes to the target path is that of
\* the top-ranked member, the member of lowest mean error (ranking[0], or a
\* member whose mean error equals that of ranking[0]).  It is stated for the
\* rankings a stable sort gives, so that no order among ties decides it.
C2_FirstWriteIsTopRanked ==
    (op = "save" /\ Len(Writes) >= 1 /\ TiesInIndexOrder) =>
        /\ Writes[1].path = Target
        /\ MeanError(Writes[1].member) = MeanError(ranking[1])

\* C3 as stated: when every refinement attempt of an output operation failed,
\* the operation has ended with the output file written, the confidence
\* annotation applied to it and a warning printed.
C3_AllFailedStillAnnotatedAndWarned ==
    (pc = "done" /\ Len(Refines) >= 1 /\ \A n \in 1..Len(Refines) : ~Refines[n].ok) =>
        /\ Exists(files, Target)
        /\ files[Target].bfactors = Confidence
        /\ Len(Select("add_errors_as_bfactors")) = 1
        /\ Len(Select("print")) >= 1

\* C4: once the loop of save_all is over, exactly M unrefined files have been
\* written, to the M distinct paths rank0..rank(M-1); the file labelled rank r
\* was written with, and holds, the structure of member ranking[r]; one error
\* array has been saved, and at the end one refinement has produced the one
\* final file.
C4_RankFilesMatchRanking ==
    (op = "save_all" /\ pc \in {"all_refine", "all_annotate", "done"}) =>
        LET W == Writes IN
        /\ Len(W) = Len(atoms)
        /\ {W[n].path : n \in 1..Len(W)} = {RankPath(r) : r \in 0..(Len(atoms) - 1)}
        /\ Cardinality({W[n].path : n \in 1..Len(W)}) = Len(atoms)
        /\ \A r \in 0..(Len(atoms) - 1) :
             /\ \E n \in 1..Len(W) :
                  W[n].path = RankPath(r) /\ W[n].member = ranking[r + 1]
             /\ Exists(files, RankPath(r))
             /\ files[RankPath(r)] = Unrefined(ranking[r + 1])
        /\ Len(Select("np.save")) = 1
        /\ Select("np.save")[1].path = Join(dirname, "error_estimates.npy")
        /\ Exists(files, Join(dirname, "error_estimates.npy"))
        /\ pc = "done" =>
             /\ Len(Refines) = 1 /\ Refines[1].path = Target
             /\ Exists(files, Target)
             /\ Target \notin {RankPath(r) : r \in 0..(Len(atoms) - 1)}

\* A finished save_all on three members whose ranking is not the identity.
C4_Witness ==
    /\ op = "save_all" /\ pc = "done" /\ Len(atoms) = 3
    /\ ranking = <<1, 2, 0>>
    /\ files[RankPath(0)].member = 1 /\ files[RankPath(2)].member = 0

\* C5: save_all invokes refine at most once, and exactly once by the time it
\* annotates; the invocation reads the rank-0 file, which has been written
\* before and holds the unrefined top-ranked member, and writes the final
\* file; the call ends with the final file annotated with the per-residue
\* confidence, whether the refinement succeeded or failed.
C5_OneRefinementOfRankZero ==
    op = "save_all" =>
        /\ Len(Refines) <= 1
        /\ pc \in {"all_annotate", "done"} => Len(Refines) = 1
        /\ \A n \in 1..Len(log) :
             log[n].ev = "refine" =>
                /\ log[n].inp = RankPath(0) /\ log[n].path = Target
                /\ log[n].member = ranking[1] /\ log[n].txt = "unrefined"
                /\ \E m \in 1..(n - 1) : log[m].ev = "write" /\ log[m].path = RankPath(0)
        /\ pc = "done" =>
             /\ log[Len(log)].ev = "add_errors_as_bfactors"
             /\ log[Len(log)].path = Target
             /\ log[Len(log)].arr = Confidence
             /\ log[Len(log) - 1].ev = "refine"
             /\ files[Target].bfactors = Confidence

\* A finished save_all on several members whose one refinement failed.
C5_Witness ==
    /\ op = "save_all" /\ pc = "done" /\ Len(atoms) >= 2
    /\ Len(Refines) = 1 /\ ~Refines[1].ok
    /\ files[Target].kind = "not_refined" /\ files[Target].bfactors = Confidence


\* C6: at construction and ever after, the ranking is a permutation of
\* 0..M-1 (M entries, every index once) and runs through the members in
\* ascending order of their mean error.
C6_RankingSortedPermutation ==
    /\ Len(atoms) >= 1
    /\ Len(ranking) = Len(atoms)
    /\ Range(ranking) = 0..(Len(atoms) - 1)
    /\ \A r, s \in 1..Len(ranking) : r < s => MeanError(ranking[r]) <= MeanError(ranking[s])
    /\ error_estimates = ErrorEstimates(aligned_traces)

\* Three members of pairwise different mean error, ranked in an order that is
\* neither that of their indices nor its own inverse.
C6_Witness ==
    /\ ranking = <<1, 2, 0>>
    /\ MeanError(1) < MeanError(2) /\ MeanError(2) < MeanError(0)

\* C7 as stated: members of equal mean error are ranked in ascending order of
\* their original index; two members with identical coordinates give [0, 1].
C7_StableTieBreak ==
    /\ TiesInIndexOrder
    /\ (Len(atoms) = 2 /\ aligned_traces[1] = aligned_traces[2]) => ranking = <<0, 1>>

----------------------------------------------------------------------------
\* predict, read off its history.

PredictArg == calls[1][2]
ModelCalls == SelectSeq(calls, LAMBDA c : c[1] = "model")
Required == {"H", "L"}

\* C8 as stated: a call to predict whose mapping lacks a required chain invokes
\* no collaborator and ends with an error.
C8_MissingChainNoCollaborator ==
    (Len(calls) >= 1 /\ ~(Required \subseteq DOMAIN PredictArg)) =>
        /\ \A n \in 1..Len(calls) : calls[n][1] \notin {"number_sequences", "get_encoding", "model"}
        /\ bpc = "predict_raised"

\* C9: predict calls numbering first, encoding second and then only models;
\* the n-th model call runs the n-th model of the model set on the encoding
\* of the numbered sequences and on heavy + light; a call that has returned
\* has run every model once, and the n-th prediction of its Antibody is the
\* output of the n-th model.
C9_OneCallPerModelInOrder ==
    bpc \in {"predict_for", "returned"} =>
        /\ calls[1][1] = "number_sequences" /\ calls[2][1] = "get_encoding"
        /\ \A n \in 3..Len(calls) : calls[n][1] = "model"
        /\ Len(ModelCalls) = pos /\ Len(outputs) = pos /\ pos <= Len(models)
        /\ \A n \in 1..Len(ModelCalls) :
             /\ ModelCalls[n][2] = models[n][1]
             /\ ModelCalls[n][3] = get_encoding(PredictArg)
             /\ ModelCalls[n][4] = PredictArg["H"] \o PredictArg["L"]
        /\ \A a, b \in 1..Len(ModelCalls) : a # b => ModelCalls[a][2] # ModelCalls[b][2]
        /\ bpc = "returned" =>
             /\ Len(ModelCalls) = Len(models)
             /\ Len(atoms) = Len(models) /\ Len(encodings) = Len(models)
             /\ \A n \in 1..Len(models) :
                  /\ atoms[n] = Prediction(models[n][1])[1]
                  /\ encodings[n] = Prediction(models[n][1])[2]

\* A call that returned the predictions of two models asked for as [2, 1].
C9_Witness ==
    /\ bpc = "returned" /\ model_ids = <<2, 1>>
    /\ Len(atoms) = 2
    /\ atoms[1] = <<"atoms", "antibody_model_2">> /\ atoms[2] = <<"atoms", "antibody_model_1">>

----------------------------------------------------------------------------
\* The constructor, read off its state.

Requested(n) == ModelFile(model_ids[n])
Loaded == {models[n][1] : n \in 1..Len(models)}
Constructed == bpc \in {"ready", "encode", "predict_for", "predict_raised", "returned"}

\* C10: a constructor that has completed holds a model for every requested
\* id and has reported no error; one that aborted did so at the first member
\* that failed, every member before it loaded, and when the failure was in
\* the download or the load of the weights the last line printed reports
\* that member.
C10_AllLoadedOrAborted ==
    /\ Constructed =>
         /\ \A n \in 1..Len(model_ids) : Requested(n) \in Loaded
         /\ \A n \in 1..Len(printed) : printed[n][1] # "ERROR"
         /\ fault.kind = "none" \/ bpc = "predict_raised"
    /\ bpc \in {"init_for", "init_raised"} =>
         \A n \in 1..pos : Requested(n) \in Loaded
    /\ bpc = "init_raised" =>
         /\ pos < Len(model_ids) /\ fault.who = Requested(pos + 1)
         /\ fault.kind = "Exception" => printed[Len(printed)] = <<"ERROR", Requested(pos + 1)>>
         /\ fault.kind = "KeyError" => Requested(pos + 1) \notin DOMAIN embed_dim
         /\ fault.kind \in {"Exception", "KeyError"}

\* A constructor that loaded its first member and aborted, reporting it, at a
\* second one whose weights failed.
C10_Witness ==
    /\ bpc = "init_raised" /\ pos = 1 /\ fault.kind = "Exception"
    /\ Requested(1) \in Loaded /\ Requested(2) \notin Loaded
    /\ printed[Len(printed)] = <<"ERROR", Requested(2)>>


\* C11: in save and in save_all the confidence annotation happens exactly
\* once per call, as the last step, after the last refinement attempt; it is
\* applied to the final file with the fixed header and with the array that
\* holds, per residue, the square root of the mean over all members of the
\* error estimate, whichever member was written last and whether the
\* refinement succeeded or failed.
C11_AnnotatedOnceAfterLastRefine ==
    op \in {"save", "save_all"} =>
        LET M == Len(error_estimates)
            expected == [r \in 1..NumRes |->
                            <<"sqrt", SumSeq([m \in 1..M |-> error_estimates[m][r]]), M * M * M>>]
            annotations == {n \in 1..Len(log) : log[n].ev = "add_errors_as_bfactors"}
        IN  /\ pc # "done" => annotations = {}
            /\ pc = "done" =>
                 /\ annotations = {Len(log)}
                 /\ \E n \in 1..(Len(log) - 1) : log[n].ev = "refine"
                 /\ log[Len(log)].path = Target
                 /\ log[Len(log)].arr = expected
                 /\ log[Len(log)].txt = header
                 /\ files[Target].bfactors = expected

\* A finished save whose attempts all failed on members of unequal error: the
\* array differs from the root of the error of the member last written.
C11_Witness ==
    /\ op = "save" /\ pc = "done" /\ success = "False"
    /\ Len(Refines) = 2 * Len(atoms)
    /\ \E r \in 1..NumRes :
         log[Len(log)].arr[r] # <<"sqrt", error_estimates[Writes[Len(Writes)].member + 1][r],
                                  Len(atoms) * Len(atoms)>>
    /\ \E r \in 1..NumRes : log[Len(log)].arr[r][2] > 0


\* C12: the command line interface fails with "Missing input sequences" when
\* neither both chains nor a fasta file are given (one chain alone
\* included), and then nothing else has happened: no model loaded, no
\* prediction, no output call.  With input it never raises that failure;
\* it makes at most one output call, save_all(args.output) when the
\* directory flag is set and save(args.output) when it is not, only after
\* the constructor and predict have returned; a call that returns has made
\* exactly one.
C12_MissingInputRaisesElseOneOutput ==
    cpc # "none" =>
        LET supplied == \/ (args.heavy_sequence # None /\ args.light_sequence # None)
                        \/ args.fasta_file # None
            missing == Call("raise", "ValueError: Missing input sequences", FALSE)
            out == {n \in 1..Len(clog) : clog[n].ev \in {"save", "save_all"}}
        IN  /\ ~supplied =>
                 /\ clog \in {<<>>, <<missing>>}
                 /\ seqs = <<>>
                 /\ cpc \in {"parsed", "raised"}
                 /\ cpc = "raised" <=> clog = <<missing>>
            /\ supplied =>
                 /\ \A n \in 1..Len(clog) : clog[n] # missing
                 /\ Cardinality(out) <= 1
                 /\ \A n \in out :
                      /\ clog[n].ev = (IF args.to_directory THEN "save_all" ELSE "save")
                      /\ clog[n].arg = args.output
                      /\ \E c, q \in 1..(n - 1) :
                           /\ c < q
                           /\ clog[c].ev = "ABodyBuilder2" /\ clog[c].ok
                           /\ clog[q].ev = "predict" /\ clog[q].ok /\ clog[q].arg = seqs
                      /\ \A q \in (n + 1)..Len(clog) : clog[q].ev = "print"
                 /\ cpc = "returned" => Cardinality(out) = 1
                 /\ cpc = "output" => out = {}

\* The call given a heavy chain only, with the directory flag: it has failed
\* with nothing done.
C12_Witness ==
    /\ args.heavy_sequence # None /\ args.light_sequence = None /\ args.fasta_file = None
    /\ args.to_directory
    /\ cpc = "raised" /\ Len(clog) = 1 /\ clog[1].ev = "raise"


\* C13: the fields of an Antibody (the stored predictions and encodings, the
\* alignment transform, the aligned traces, the error estimates and the
\* ranking) are those __init__ computed: no step of save, save_all or
\* save_single_unrefined changes any of them, in any sequence of calls and
\* whatever the refinements answer.
C13_FieldsNeverChange ==
    [][/\ numbered_sequences' = numbered_sequences
       /\ atoms' = atoms /\ encodings' = encodings
       /\ Rt' = Rt /\ aligned_traces' = aligned_traces
       /\ error_estimates' = error_estimates /\ ranking' = ranking]_vars

\* A save that has just ended with every attempt failed, called after a
\* save_all and a save_single_unrefined on the same object have left their
\* files.
C13_Witness ==
    /\ op = "save" /\ pc = "done" /\ success = "False" /\ Len(atoms) >= 2
    /\ Exists(files, Join("ABodyBuilder2_output", "final_model.pdb"))
    /\ Exists(files, Join(".", "model.pdb")) /\ files[Join(".", "model.pdb")].kind = "unrefined"
    /\ filename = "ABodyBuilder2_output.pdb"


\* C14: in save, every invocation of refine comes directly after a write of
\* an unrefined candidate to the target path and reads that file, which holds
\* the unrefined structure just written; the second attempt of an iteration
\* follows a failed first attempt and is made on the same member, written
\* afresh, never on the file the failed attempt left.
C14_RefineFollowsFreshWrite ==
    op = "save" =>
        /\ \A n \in 1..Len(log) :
             log[n].ev = "refine" =>
                /\ n > 1
                /\ log[n - 1].ev = "write" /\ log[n - 1].path = Target
                /\ log[n].inp = Target /\ log[n].path = Target
                /\ log[n].member = log[n - 1].member
                /\ log[n].txt = "unrefined"
        /\ \A k \in 1..(Len(Refines) \div 2) :
             /\ ~Refines[2 * k - 1].ok
             /\ Refines[2 * k].member = Refines[2 * k - 1].member
        /\ pc \in {"save_refine1", "save_refine2"} =>
             files[Target] = Unrefined(log[Len(log)].member)
        /\ pc = "save_write2" =>
             /\ log[Len(log)].ev = "refine" /\ ~log[Len(log)].ok
             /\ files[Target].kind = "not_refined"

\* A retry has been made: the first attempt failed, the candidate was written
\* again over the file it left, and the second attempt ran on that.
C14_Witness ==
    /\ op = "save" /\ Len(log) = 4
    /\ log[2].ev = "refine" /\ ~log[2].ok
    /\ log[3].ev = "write" /\ log[4].ev = "refine" /\ log[4].txt = "unrefined"

\* C15 as stated: when every refinement attempt of a call to save has failed,
\* the structure last written to the target path is that of the best-ranked
\* member (ranking[0], or a member of the same mean error), and that member's
\* structure is what the file holds at the end.
C15_AllFailedKeepsTopRanked ==
    (op = "save" /\ pc = "done" /\ \A n \in 1..Len(Refines) : ~Refines[n].ok) =>
        /\ MeanError(Writes[Len(Writes)].member) = MeanError(ranking[1])
        /\ MeanError(files[Target].member) = MeanError(ranking[1])

\* C16: in save, nothing is written or refined after an attempt that
\* succeeded, so the refined file stays; and the warning is printed, once and
\* after the loop, exactly in the calls in which no attempt succeeded.
C16_SuccessEndsAttempts ==
    op = "save" =>
        /\ \A n \in 1..Len(log) :
             (log[n].ev = "refine" /\ log[n].ok) =>
                /\ \A q \in (n + 1)..Len(log) : log[q].ev \notin {"write", "refine"}
                /\ files[Target].kind = "refined"
                /\ files[Target].member = log[n].member
        /\ pc # "done" => Len(Select("print")) = 0
        /\ pc = "done" =>
             /\ Len(Select("print")) <= 1
             /\ Len(Select("print")) = 1 <=> (\A n \in 1..Len(Refines) : ~Refines[n].ok)

\* A finished save whose first attempt failed and whose retry succeeded: no
\* warning, and the refined file is the one annotated.
C16_Witness ==
    /\ op = "save" /\ pc = "done" /\ Len(atoms) >= 2
    /\ Len(Refines) = 2 /\ ~Refines[1].ok /\ Refines[2].ok
    /\ Len(Select("print")) = 0
    /\ files[Target].kind = "refined"


\* C17: a call to save on M >= 1 members ends: it invokes refine at most 2*M
\* times, at most twice on any member, and all attempts on one member fall
\* in one iteration, the candidates ranking.index(0), ..., ranking.index(M-1)
\* being M different members; and every call that has begun reaches the
\* annotation and is done.
C17_SaveTerminates ==
    /\ [](op = "save" =>
            LET M == Len(atoms) IN
            /\ Len(Refines) <= 2 * M
            /\ \A a, b \in 0..(M - 1) :
                 /\ Candidate(a) \in 0..(M - 1)
                 /\ a # b => Candidate(a) # Candidate(b)
            /\ \A m \in 0..(M - 1) :
                 Cardinality({n \in 1..Len(Refines) : Refines[n].member = m}) <= 2
            /\ \A a, b \in 1..Len(Refines) :
                 Refines[a].member = Refines[b].member => (a - 1) \div 2 = (b - 1) \div 2
            /\ i \in 0..M)
    /\ (op = "save") ~> (/\ op = "save" /\ pc = "done"
                          /\ Len(Select("add_errors_as_bfactors")) = 1
                          /\ log[Len(log)].ev = "add_errors_as_bfactors")

\* The longest call: every one of the 2*M attempts on M >= 2 members failed,
\* each member was tried twice, and the call has annotated and ended.
C17_Witness ==
    /\ op = "save" /\ pc = "done" /\ Len(atoms) >= 2
    /\ Len(Refines) = 2 * Len(atoms)
    /\ \A m \in 0..(Len(atoms) - 1) :
         Cardinality({n \in 1..Len(Refines) : Refines[n].member = m}) = 2
    /\ log[Len(log)].ev = "add_errors_as_bfactors"

====
